---- MODULE Spec2Model ----
(***************************************************************************)
(* Sonic (paidright/sonic): a runner that takes tasks from a Kewpie queue, *)
(* announces each one on its start webhook, runs the task body as a child  *)
(* process and reports the outcome on the success or fail webhook.         *)
(*                                                                         *)
(* The repository holds three snapshots of the program.  The current one   *)
(* is src/unnamed/part_000 (typed Webhook events, idle watchdog, single    *)
(* shot mode); src/unnamed/part_001 and src/main.go are earlier ones.      *)
(* The handler is modelled once, with the places where the snapshots       *)
(* differ selected by the variable version.                                *)
(***************************************************************************)
EXTENDS Integers, Sequences, FiniteSets, TLC

(***************************************************************************)
(* Bounds of the model.                                                    *)
(***************************************************************************)
\* number of deliveries the queue makes in one run of the process
MaxDeliveries == 2
\* command lines given to getCommandAndArgs: at most MaxTokens tokens, separated
\* by runs of at most MaxRun whitespace characters
MaxTokens == 3
MaxRun == 2

(***************************************************************************)
(* Program constants.                                                      *)
(***************************************************************************)
startWebhook == 1
successWebhook == 2
failWebhook == 3

Nil == "nil"
ErrWebhookServerFailed == "ErrWebhookServerFailed"
ErrWebhookBadRequest == "ErrWebhookBadRequest"
ErrUnknownWebhook == "ErrUnknownWebhook"
\* the error value http.Post itself returns (url.Error); it is none of the
\* package's sentinel errors
ErrHttpPost == "url.Error"
\* the error values of cmd.Run
ErrExec == "exec.Error"
ErrExit == "exec.ExitError"
ErrCtx == "context.Canceled"

Versions == {"main.go", "part_001", "part_000"}
Current == "part_000"

(***************************************************************************)
(* Tasks.  Tags is a Go map[string]string: a partial function, and a       *)
(* lookup of a key that is absent yields the empty string.                 *)
(***************************************************************************)
MalformedUrl == "http:/localhost"
GoodUrl == "http://localhost/hook"
UrlValues == {"", MalformedUrl, GoodUrl}
WebhookKeys == {"webhook_start", "webhook_success", "webhook_fail"}
\* the key the README documents for the failure callback
ReadmeKeys == {"webhook_error"}
TagKeys == WebhookKeys \cup ReadmeKeys
\* command lines, as sequences of characters
Sp == " "
Tab == "\t"
Bodies == {<<>>, <<"a", Sp, Sp, "b">>}

Tags ==
  UNION { { t \in [D -> UrlValues] : \A k \in D \cap ReadmeKeys : t[k] = GoodUrl }
          : D \in SUBSET TagKeys }
Tasks == [Body : Bodies, Tags : Tags]

\* task.Tags[key]
TagLookup(tags, key) == IF key \in DOMAIN tags THEN tags[key] ELSE ""

(***************************************************************************)
(* The HTTP client.  A result of http.Post is a transport error or a       *)
(* response with a status code.                                            *)
(***************************************************************************)
StatusCodes == {199, 200, 299, 300, 400, 500}
NoResult == [kind |-> "none", code |-> 0]
TransportError == [kind |-> "error", code |-> 0]
Response(c) == [kind |-> "response", code |-> c]
Responses == { Response(c) : c \in StatusCodes }

\* what http.Post(url, ...) can return: a URL without a host fails before any
\* connection is made; any other URL fails (refused, timeout) or is answered
httpPost(url) ==
  IF url = MalformedUrl THEN {TransportError}
  ELSE {TransportError} \cup Responses

(***************************************************************************)
(* sendWebhook                                                             *)
(***************************************************************************)
\* webhookToString with an unknown event given the empty name and no error
webhookToString_UnknownIsEmpty(hook) ==
  CASE hook = 1 -> [str |-> "start", err |-> Nil]
    [] hook = 2 -> [str |-> "success", err |-> Nil]
    [] hook = 3 -> [str |-> "fail", err |-> Nil]
    [] OTHER -> [str |-> "", err |-> Nil]

webhookToString(hook) ==
  CASE hook = 1 -> [str |-> "start", err |-> Nil]
    [] hook = 2 -> [str |-> "success", err |-> Nil]
    [] hook = 3 -> [str |-> "fail", err |-> Nil]
    [] OTHER -> [str |-> "", err |-> ErrUnknownWebhook]

\* the event the handler of a snapshot passes to sendWebhook: a Webhook
\* constant in the current program, the event's name in the earlier ones
EventArg(ver, name) ==
  IF ver = Current
  THEN CASE name = "start" -> startWebhook
         [] name = "success" -> successWebhook
         [] name = "fail" -> failWebhook
  ELSE name

\* sendWebhookRequest with the tag tested for presence, not for emptiness
sendWebhookRequest_PresenceCheck(ver, event, t) ==
  LET evt == IF ver = Current THEN webhookToString(event)
             ELSE [str |-> event, err |-> Nil]
      tagName == "webhook_" \o evt.str
  IN IF evt.err # Nil
     THEN [post |-> FALSE, err |-> evt.err, tag |-> "", url |-> ""]
     ELSE IF tagName \notin DOMAIN t.Tags
     THEN [post |-> FALSE, err |-> Nil, tag |-> tagName, url |-> ""]
     ELSE [post |-> TRUE, err |-> Nil, tag |-> tagName,
           url |-> TagLookup(t.Tags, tagName)]

\* sendWebhook up to the call of http.Post: either it returns (with err) or
\* it posts to url.  json.Marshal of a Task (strings and a string map) does
\* not fail.
sendWebhookRequest(ver, event, t) ==
  LET evt == IF ver = Current THEN webhookToString(event)
             ELSE [str |-> event, err |-> Nil]
      tagName == "webhook_" \o evt.str
  IN IF evt.err # Nil
     THEN [post |-> FALSE, err |-> evt.err, tag |-> "", url |-> ""]
     ELSE IF TagLookup(t.Tags, tagName) = ""
     THEN [post |-> FALSE, err |-> Nil, tag |-> tagName, url |-> ""]
     ELSE [post |-> TRUE, err |-> Nil, tag |-> tagName,
           url |-> TagLookup(t.Tags, tagName)]

\* sendWebhookResult with the upper end of the 2xx range included
sendWebhookResult_Upto300(ver, res) ==
  IF res.kind = "error"
  THEN (IF ver = "main.go" THEN ErrHttpPost ELSE ErrWebhookServerFailed)
  ELSE IF res.code = 400 THEN ErrWebhookBadRequest
  ELSE IF res.code >= 200 /\ res.code <= 300 THEN Nil
  ELSE ErrWebhookServerFailed

\* sendWebhookResult returning the error of http.Post as it is
sendWebhookResult_RawError(ver, res) ==
  IF res.kind = "error" THEN ErrHttpPost
  ELSE IF res.code = 400 THEN ErrWebhookBadRequest
  ELSE IF res.code >= 200 /\ res.code < 300 THEN Nil
  ELSE ErrWebhookServerFailed

\* sendWebhook from the return of http.Post on: the error it returns
sendWebhookResult(ver, res) ==
  IF res.kind = "error"
  THEN (IF ver = "main.go" THEN ErrHttpPost ELSE ErrWebhookServerFailed)
  ELSE IF res.code = 400 THEN ErrWebhookBadRequest
  ELSE IF res.code >= 200 /\ res.code < 300 THEN Nil
  ELSE ErrWebhookServerFailed

(***************************************************************************)
(* signalTaskStart: the handler's reaction to the error of the start       *)
(* notification.  A non-nil err makes the handler return (requeue, err).   *)
(***************************************************************************)
\* signalTaskStart with the two verdicts exchanged
signalTaskStart_RequeueOnAbort(err) ==
  IF err = ErrWebhookServerFailed THEN [requeue |-> FALSE, err |-> err]
  ELSE IF err = ErrWebhookBadRequest THEN [requeue |-> TRUE, err |-> err]
  ELSE IF err # Nil THEN [requeue |-> FALSE, err |-> err]
  ELSE [requeue |-> FALSE, err |-> Nil]

signalTaskStart(err) ==
  IF err = ErrWebhookServerFailed THEN [requeue |-> TRUE, err |-> err]
  ELSE IF err = ErrWebhookBadRequest THEN [requeue |-> FALSE, err |-> err]
  ELSE IF err # Nil THEN [requeue |-> FALSE, err |-> err]
  ELSE [requeue |-> FALSE, err |-> Nil]

\* procVerdict with the retry policy ignored
procVerdict_AlwaysRequeue(retry, procErr, notifyErr) ==
  IF procErr # Nil THEN [requeue |-> TRUE, err |-> procErr]
  ELSE [requeue |-> FALSE, err |-> Nil]

\* procVerdict with a failed outcome notification returned for redelivery
procVerdict_NotifyEscalates(retry, procErr, notifyErr) ==
  IF notifyErr = ErrWebhookServerFailed
  THEN [requeue |-> TRUE, err |-> notifyErr]
  ELSE IF procErr # Nil THEN [requeue |-> retry, err |-> procErr]
  ELSE [requeue |-> FALSE, err |-> Nil]

\* procVerdict with config.RETRY returned on both paths
procVerdict_RetryOnSuccess(retry, procErr, notifyErr) ==
  IF procErr # Nil THEN [requeue |-> retry, err |-> procErr]
  ELSE [requeue |-> retry, err |-> Nil]

\* the verdict of the handler after runProc returned procErr; the error of
\* the outcome notification is logged and takes no part in it
procVerdict(retry, procErr, notifyErr) ==
  IF procErr # Nil THEN [requeue |-> retry, err |-> procErr]
  ELSE [requeue |-> FALSE, err |-> Nil]

\* outcomeEvent with the fail notification on both paths
outcomeEvent_AlwaysFail(procErr) == "fail"

\* the notification the handler sends after runProc returned procErr
outcomeEvent(procErr) == IF procErr # Nil THEN "fail" ELSE "success"

(***************************************************************************)
(* runProc                                                                 *)
(***************************************************************************)
IsSpace(c) == c \in {Sp, Tab}

RECURSIVE SplitFrom(_, _, _, _, _)
\* the pieces of s between separators, from position i on; cur is the piece
\* being read and acc the pieces read.  With runs, adjacent separators count
\* as one.
SplitFrom(s, i, cur, acc, runs) ==
  IF i > Len(s) THEN Append(acc, cur)
  ELSE IF (IF runs THEN IsSpace(s[i]) ELSE s[i] = Sp)
  THEN IF runs /\ i > 1 /\ IsSpace(s[i - 1])
       THEN SplitFrom(s, i + 1, cur, acc, runs)
       ELSE SplitFrom(s, i + 1, <<>>, Append(acc, cur), runs)
  ELSE SplitFrom(s, i + 1, Append(cur, s[i]), acc, runs)

\* regexp.MustCompile(`\s+`).Split(cli, -1)
regexpSplit(cli) == SplitFrom(cli, 1, <<>>, <<>>, TRUE)
\* strings.Split(cli, " ")
stringsSplit(cli) == SplitFrom(cli, 1, <<>>, <<>>, FALSE)

\* the splitting of the earlier snapshots, kept in the current one
getCommandAndArgs_SingleSpace(ver, cli) ==
  LET parts == stringsSplit(cli)
  IN [command |-> Head(parts), args |-> Tail(parts)]

getCommandAndArgs(ver, cli) ==
  LET parts == IF ver = Current THEN regexpSplit(cli) ELSE stringsSplit(cli)
  IN [command |-> Head(parts), args |-> Tail(parts)]

\* cmd.Run() up to the start of the child: the error it returns at once, or
\* Nil when the child has been started.  spawns tells whether the operating
\* system can start the command (it exists and is executable).
runProcStart(ver, cli, cancelled, spawns) ==
  IF getCommandAndArgs(ver, cli).command = <<>> THEN ErrExec
  ELSE IF cancelled THEN ErrCtx
  ELSE IF ~spawns THEN ErrExec
  ELSE Nil

\* cmd.Run() from the end of the child on: nil exactly when the child exited
\* with status 0 (the contract os/exec documents for Run)
runProcWait(code) == IF code = 0 THEN Nil ELSE ErrExit

(***************************************************************************)
(* State.                                                                  *)
(***************************************************************************)
VARIABLES
  version,      \* the snapshot of the program that is running
  RETRY,        \* config.RETRY
  SINGLE_SHOT,  \* config.SINGLE_SHOT
  DIE_IF_IDLE,  \* config.DIE_IF_IDLE
  pc,           \* where the delivery loop and the handler are
  task,         \* the task being handled
  running,      \* the busy flag of subscribe
  runningWrites,\* the values written to running so far (it is read without
                \* synchronisation by the watchdog)
  ctxDone,      \* the context of contextWithSigterm is cancelled
  exited,       \* the process has ended by os.Exit
  deliveries,   \* number of deliveries made so far
  startRes,     \* result of http.Post for the start notification
  startErr,     \* error returned by sendWebhook(start)
  procRuns,     \* number of calls of runProc in this delivery
  procOutcome,  \* how the command ended
  procErr,      \* error returned by runProc
  outEvent,     \* the outcome notification sent: "success", "fail" or "none"
  outRes,       \* result of http.Post for the outcome notification
  outErr,       \* error returned by sendWebhook(success | fail)
  posts,        \* per tag, the number of HTTP requests issued in this delivery
  inflight,     \* the tags whose HTTP request is awaiting its result
  trace,        \* the events of this delivery, in order
  verdict,      \* what the handler returned
  released,     \* number of verdicts the queue has received
  lastVerdict,  \* the last verdict the queue received
  exitBy,       \* what ended the process: "watchdog", "main", "fatal"
  exitCode,     \* the exit code of the process (NoExitCode while it runs)
  disconnects,  \* number of calls of queue.Disconnect
  handledSinceCheck, \* a delivery began since the last check of the watchdog
  call,         \* a direct call of sendWebhook(event, task) and its result
  parentDone,   \* the context passed to contextWithSigterm is cancelled
  signalled,    \* SIGINT or SIGTERM has been delivered to signalCh
  listener,     \* where the goroutine of contextWithSigterm is
  tokens,       \* the tokens of a command line given to getCommandAndArgs
  seps,         \* the whitespace between them
  parsed        \* what getCommandAndArgs and runProc made of it

config == <<version, RETRY, SINGLE_SHOT, DIE_IF_IDLE>>
delivery == <<task, startRes, startErr, procRuns, procOutcome, procErr,
              outEvent, outRes, outErr, posts, inflight, trace, verdict>>
process == <<exitBy, exitCode, disconnects>>
sigctx == <<parentDone, signalled, listener>>
cmdline == <<tokens, seps, parsed>>
vars == <<config, pc, running, runningWrites, ctxDone, exited, deliveries,
          released, lastVerdict, delivery, process, handledSinceCheck, call,
          sigctx, cmdline>>

Unset == "unset"
NoVerdict == [requeue |-> FALSE, err |-> Unset]
NoTask == [Body |-> <<>>, Tags |-> [k \in {} |-> ""]]
NoPosts == [k \in TagKeys |-> 0]
NoExitCode == -1
NoCall == [state |-> "none", event |-> 0, err |-> Unset]
NoParse == [state |-> "none"]
NoCmdline == tokens = <<>> /\ seps = <<>> /\ parsed = NoParse

\* no delivery is being handled
NoDelivery ==
  /\ task = NoTask
  /\ startRes = NoResult /\ startErr = Unset
  /\ procRuns = 0 /\ procOutcome = "none" /\ procErr = Unset
  /\ outEvent = "none" /\ outRes = NoResult /\ outErr = Unset
  /\ posts = NoPosts /\ inflight = {} /\ trace = <<>>
  /\ verdict = NoVerdict

\* the frame of the handler is gone
ClearDelivery ==
  /\ task' = NoTask
  /\ startRes' = NoResult /\ startErr' = Unset
  /\ procRuns' = 0 /\ procOutcome' = "none" /\ procErr' = Unset
  /\ outEvent' = "none" /\ outRes' = NoResult /\ outErr' = Unset
  /\ posts' = NoPosts /\ inflight' = {} /\ trace' = <<>>
  /\ verdict' = NoVerdict

\* the earliest snapshot has neither the watchdog nor single shot mode
HasWatchdog(ver) == ver # "main.go"

InitState ==
  /\ RETRY \in BOOLEAN
  /\ SINGLE_SHOT \in (IF HasWatchdog(version) THEN BOOLEAN ELSE {FALSE})
  /\ DIE_IF_IDLE \in (IF HasWatchdog(version) THEN BOOLEAN ELSE {FALSE})
  /\ pc = "idle"
  /\ running = FALSE
  /\ runningWrites = {FALSE}
  /\ ctxDone = FALSE
  /\ exited = FALSE
  /\ deliveries = 0
  /\ released = 0
  /\ lastVerdict = NoVerdict
  /\ exitBy = "none" /\ exitCode = NoExitCode
  /\ disconnects = 0
  /\ handledSinceCheck = FALSE
  /\ parentDone = FALSE /\ signalled = FALSE /\ listener = "select"
  /\ NoCmdline
  /\ NoDelivery

\* the current program
Init == version = Current /\ call = NoCall /\ InitState
\* every snapshot of the program under src/
InitVersions == version \in Versions /\ call = NoCall /\ InitState

(***************************************************************************)
(* The handler.  It is one sequential function; its steps are separated at *)
(* the points where it waits (for an HTTP result, for the child process).  *)
(***************************************************************************)
\* return (requeue, err), running the deferred running = false
Return_StaysBusy(v) ==
  /\ verdict' = v
  /\ UNCHANGED <<running, runningWrites>>
  /\ pc' = "returned"

Return(v) ==
  /\ verdict' = v
  /\ running' = FALSE
  /\ runningWrites' = runningWrites \cup {FALSE}
  /\ pc' = "returned"

\* what the handler does once sendWebhook(start) has returned err
\* a handler that would stop requeueing after the first delivery
AfterStart_GivesUp(err) ==
  /\ startErr' = err
  /\ LET r == IF deliveries > 1 /\ err = ErrWebhookServerFailed
              THEN [requeue |-> FALSE, err |-> err]
              ELSE signalTaskStart(err)
     IN IF r.err # Nil
        THEN Return(r)
        ELSE /\ pc' = "runProc"
             /\ UNCHANGED <<verdict, running, runningWrites>>

AfterStart(err) ==
  /\ startErr' = err
  /\ LET r == signalTaskStart(err)
     IN IF r.err # Nil
        THEN Return(r)
        ELSE /\ pc' = "runProc"
             /\ UNCHANGED <<verdict, running, runningWrites>>

\* what the handler does once the outcome notification has returned err
AfterOutcome(err) ==
  /\ outErr' = err
  /\ Return(procVerdict(RETRY, procErr, err))

\* the queue calls handler.Handle(t)
Deliver(t) ==
  /\ pc = "idle" /\ ~exited /\ ~ctxDone
  /\ deliveries < MaxDeliveries
  /\ deliveries' = deliveries + 1
  /\ task' = t
  /\ running' = TRUE
  /\ runningWrites' = runningWrites \cup {TRUE}
  /\ pc' = "signalTaskStart"
  /\ UNCHANGED <<config, ctxDone, exited, released, lastVerdict, startRes,
                 startErr, procRuns, procOutcome, procErr, outEvent, outRes,
                 outErr, posts, inflight, trace, verdict>>
  /\ handledSinceCheck' = TRUE
  /\ UNCHANGED <<process, call, sigctx, cmdline>>

\* SendStart with the notification sent without waiting for its result
SendStart_NoWait ==
  /\ pc = "signalTaskStart" /\ ~exited
  /\ LET rq == sendWebhookRequest(version, EventArg(version, "start"), task)
     IN IF rq.post
        THEN /\ posts' = [posts EXCEPT ![rq.tag] = @ + 1]
             /\ inflight' = inflight \cup {rq.tag}
             /\ trace' = Append(trace, "start.post")
             /\ AfterStart(Nil)
        ELSE /\ AfterStart(rq.err)
             /\ trace' = Append(trace, "start.skip")
             /\ UNCHANGED <<posts, inflight>>
  /\ UNCHANGED <<config, ctxDone, exited, deliveries, task, startRes,
                 procRuns, procOutcome, procErr, outEvent, outRes, outErr,
                 released, lastVerdict>>
  /\ UNCHANGED <<process, handledSinceCheck, call, sigctx, cmdline>>

\* signalTaskStart calls sendWebhook(startWebhook, task), up to http.Post
SendStart ==
  /\ pc = "signalTaskStart" /\ ~exited
  /\ LET rq == sendWebhookRequest(version, EventArg(version, "start"), task)
     IN IF rq.post
        THEN /\ posts' = [posts EXCEPT ![rq.tag] = @ + 1]
             /\ inflight' = inflight \cup {rq.tag}
             /\ trace' = Append(trace, "start.post")
             /\ pc' = "postStart"
             /\ UNCHANGED <<startErr, verdict, running, runningWrites>>
        ELSE /\ AfterStart(rq.err)
             /\ trace' = Append(trace, "start.skip")
             /\ UNCHANGED <<posts, inflight>>
  /\ UNCHANGED <<config, ctxDone, exited, deliveries, task, startRes,
                 procRuns, procOutcome, procErr, outEvent, outRes, outErr,
                 released, lastVerdict>>
  /\ UNCHANGED <<process, handledSinceCheck, call, sigctx, cmdline>>

\* http.Post of the start notification returns res
RecvStart(res) ==
  /\ pc = "postStart" /\ ~exited
  /\ res \in httpPost(TagLookup(task.Tags, "webhook_start"))
  /\ startRes' = res
  /\ inflight' = inflight \ {"webhook_start"}
  /\ trace' = Append(trace, "start.done")
  /\ AfterStart(sendWebhookResult(version, res))
  /\ UNCHANGED <<config, ctxDone, exited, deliveries, task, procRuns,
                 procOutcome, procErr, outEvent, outRes, outErr, posts,
                 released, lastVerdict>>
  /\ UNCHANGED <<process, handledSinceCheck, call, sigctx, cmdline>>

\* what the handler does once runProc has returned err
AfterProc(err) ==
  /\ procErr' = err
  /\ trace' = Append(trace, "proc.done")
  /\ pc' = "notify"

\* the handler calls runProc(ctx, task.Body): the child is started
RunProcStart(spawns) ==
  /\ pc = "runProc" /\ ~exited
  /\ procRuns' = procRuns + 1
  /\ LET err == runProcStart(version, task.Body, ctxDone, spawns)
     IN IF err = Nil
        THEN /\ pc' = "waitProc"
             /\ trace' = Append(trace, "proc.start")
             /\ UNCHANGED <<procErr, procOutcome>>
        ELSE /\ procErr' = err
             /\ procOutcome' = "notStarted"
             /\ trace' = trace \o <<"proc.start", "proc.done">>
             /\ pc' = "notify"
  /\ UNCHANGED <<config, running, runningWrites, ctxDone, exited, deliveries,
                 task, startRes, startErr, outEvent, outRes, outErr, posts,
                 inflight, verdict, released, lastVerdict>>
  /\ UNCHANGED <<process, handledSinceCheck, call, sigctx, cmdline>>

\* the child exits by itself with status code
ProcExit(code) ==
  /\ pc = "waitProc" /\ ~exited
  /\ procOutcome' = (IF code = 0 THEN "exit0" ELSE "exitNonZero")
  /\ AfterProc(runProcWait(code))
  /\ UNCHANGED <<config, running, runningWrites, ctxDone, exited, deliveries,
                 task, startRes, startErr, procRuns, outEvent, outRes, outErr,
                 posts, inflight, verdict, released, lastVerdict>>
  /\ UNCHANGED <<process, handledSinceCheck, call, sigctx, cmdline>>

\* a runProc that would not report the kill of the child as an error
ProcKilled_ReportsNil ==
  /\ pc = "waitProc" /\ ~exited /\ ctxDone
  /\ procOutcome' = "killed"
  /\ AfterProc(Nil)
  /\ UNCHANGED <<config, running, runningWrites, ctxDone, exited, deliveries,
                 task, startRes, startErr, procRuns, outEvent, outRes, outErr,
                 posts, inflight, verdict, released, lastVerdict>>
  /\ UNCHANGED <<process, handledSinceCheck, call, sigctx, cmdline>>

\* the context is cancelled while the child runs: exec kills the child
ProcKilled ==
  /\ pc = "waitProc" /\ ~exited /\ ctxDone
  /\ procOutcome' = "killed"
  /\ AfterProc(ErrExit)
  /\ UNCHANGED <<config, running, runningWrites, ctxDone, exited, deliveries,
                 task, startRes, startErr, procRuns, outEvent, outRes, outErr,
                 posts, inflight, verdict, released, lastVerdict>>
  /\ UNCHANGED <<process, handledSinceCheck, call, sigctx, cmdline>>

\* the handler calls sendWebhook(failWebhook | successWebhook, task), up to
\* http.Post
SendOutcome ==
  /\ pc = "notify" /\ ~exited
  /\ LET ev == outcomeEvent(procErr)
         rq == sendWebhookRequest(version, EventArg(version, ev), task)
     IN /\ outEvent' = ev
        /\ IF rq.post
           THEN /\ posts' = [posts EXCEPT ![rq.tag] = @ + 1]
                /\ inflight' = inflight \cup {rq.tag}
                /\ trace' = Append(trace, ev \o ".post")
                /\ pc' = "postOutcome"
                /\ UNCHANGED <<outErr, verdict, running, runningWrites>>
           ELSE /\ AfterOutcome(rq.err)
                /\ trace' = Append(trace, ev \o ".skip")
                /\ UNCHANGED <<posts, inflight>>
  /\ UNCHANGED <<config, ctxDone, exited, deliveries, task, startRes,
                 startErr, procRuns, procOutcome, procErr, outRes, released,
                 lastVerdict>>
  /\ UNCHANGED <<process, handledSinceCheck, call, sigctx, cmdline>>

\* http.Post of the outcome notification returns res
RecvOutcome(res) ==
  /\ pc = "postOutcome" /\ ~exited
  /\ res \in httpPost(TagLookup(task.Tags, "webhook_" \o outEvent))
  /\ outRes' = res
  /\ inflight' = inflight \ {"webhook_" \o outEvent}
  /\ trace' = Append(trace, outEvent \o ".done")
  /\ AfterOutcome(sendWebhookResult(version, res))
  /\ UNCHANGED <<config, ctxDone, exited, deliveries, task, startRes,
                 startErr, procRuns, procOutcome, procErr, outEvent, posts,
                 released, lastVerdict>>
  /\ UNCHANGED <<process, handledSinceCheck, call, sigctx, cmdline>>

(***************************************************************************)
(* The queue, the signal listener and the idle watchdog.                   *)
(***************************************************************************)
\* Release with queue.Subscribe used in both modes
Release_AlwaysSubscribes ==
  /\ pc = "returned" /\ ~exited
  /\ released' = released + 1
  /\ lastVerdict' = verdict
  /\ pc' = "idle"
  /\ ClearDelivery
  /\ UNCHANGED <<config, running, runningWrites, ctxDone, exited, deliveries>>
  /\ UNCHANGED <<process, handledSinceCheck, call, sigctx, cmdline>>

\* the queue takes the verdict of the handler (the handler's frame, and with
\* it the record of this delivery, is gone).  queue.Pop returns after one
\* delivery, queue.Subscribe waits for the next one.
Release ==
  /\ pc = "returned" /\ ~exited
  /\ released' = released + 1
  /\ lastVerdict' = verdict
  /\ pc' = (IF SINGLE_SHOT THEN "stopped" ELSE "idle")
  /\ ClearDelivery
  /\ UNCHANGED <<config, running, runningWrites, ctxDone, exited, deliveries>>
  /\ UNCHANGED <<process, handledSinceCheck, call, sigctx, cmdline>>

\* SIGINT or SIGTERM arrives: the goroutine of contextWithSigterm, waiting in
\* its select, receives it from signalCh and returns, and its deferred cancel
\* cancels the context
Signal ==
  /\ ~ctxDone /\ ~exited
  /\ listener = "select"
  /\ signalled' = TRUE
  /\ listener' = "done"
  /\ ctxDone' = TRUE
  /\ UNCHANGED <<config, pc, running, runningWrites, exited, deliveries,
                 released, lastVerdict, delivery, parentDone>>
  /\ UNCHANGED cmdline
  /\ UNCHANGED <<process, handledSinceCheck, call>>

\* variant of the watchdog that would end the process with exit code 1
Watchdog_ExitOne(seen) ==
  /\ DIE_IF_IDLE /\ HasWatchdog(version) /\ ~exited
  /\ seen \in runningWrites
  /\ exited' = ~seen
  /\ IF seen
     THEN /\ handledSinceCheck' = FALSE
          /\ UNCHANGED <<delivery, exitBy, exitCode>>
     ELSE /\ exitBy' = "watchdog"
          /\ exitCode' = 1
          /\ ClearDelivery
          /\ UNCHANGED handledSinceCheck
  /\ UNCHANGED <<config, pc, running, runningWrites, ctxDone, deliveries,
                 released, lastVerdict, disconnects, call, sigctx, cmdline>>

\* the watchdog wakes up and reads running; the read is not ordered with the
\* writes of the handler, so it sees one of the values written so far.  On
\* os.Exit(0) the process and the frame of its handler are gone; pc, running
\* and handledSinceCheck keep what they were at that moment.
Watchdog(seen) ==
  /\ DIE_IF_IDLE /\ HasWatchdog(version) /\ ~exited
  /\ seen \in runningWrites
  /\ exited' = ~seen
  /\ IF seen
     THEN /\ handledSinceCheck' = FALSE
          /\ UNCHANGED <<delivery, exitBy, exitCode>>
     ELSE /\ exitBy' = "watchdog"
          /\ exitCode' = 0
          /\ ClearDelivery
          /\ UNCHANGED handledSinceCheck
  /\ UNCHANGED <<config, pc, running, runningWrites, ctxDone, deliveries,
                 released, lastVerdict, disconnects, call, sigctx, cmdline>>

\* the goroutine of main that waits for ctx.Done() calls queue.Disconnect()
\* and returns
Disconnect ==
  /\ ctxDone /\ ~exited /\ disconnects = 0
  /\ disconnects' = disconnects + 1
  /\ UNCHANGED <<config, pc, running, runningWrites, ctxDone, exited,
                 deliveries, released, lastVerdict, delivery, exitBy,
                 exitCode, handledSinceCheck, call, sigctx, cmdline>>

\* subscribe returns to main: queue.Pop after its delivery, queue.Subscribe
\* or queue.Pop once the context is cancelled, either of them with an error
\* of the backend while it waits.  With an error main ends in log.Fatal
\* (exit code 1), without one main returns (exit code 0).
MainReturns(err) ==
  /\ ~exited
  /\ \/ pc = "stopped"
     \/ pc = "idle" /\ (ctxDone \/ err)
  /\ exited' = TRUE
  /\ exitBy' = (IF err THEN "fatal" ELSE "main")
  /\ exitCode' = (IF err THEN 1 ELSE 0)
  /\ UNCHANGED <<config, pc, running, runningWrites, ctxDone, deliveries,
                 released, lastVerdict, delivery, disconnects,
                 handledSinceCheck, call, sigctx, cmdline>>

Next ==
  \/ \E t \in Tasks : Deliver(t)
  \/ SendStart
  \/ \E res \in {TransportError} \cup Responses : RecvStart(res)
  \/ \E spawns \in BOOLEAN : RunProcStart(spawns)
  \/ \E code \in {0, 1} : ProcExit(code)
  \/ ProcKilled
  \/ SendOutcome
  \/ \E res \in {TransportError} \cup Responses : RecvOutcome(res)
  \/ Release
  \/ Signal
  \/ \E seen \in BOOLEAN : Watchdog(seen)
  \/ Disconnect
  \/ \E err \in BOOLEAN : MainReturns(err)

Spec == Init /\ [][Next]_vars
SpecVersions == InitVersions /\ [][Next]_vars

\* The steps the program takes by itself once they are possible: exec's
\* goroutine kills the child after ctx.Done(), the handler goes on to its
\* outcome notification, http.Post returns (a response or an error), and the
\* queue library takes the verdict the handler returned.  Signals, the exit of
\* the child by itself and the wake-ups of the watchdog are left to the
\* environment.
Fairness ==
  /\ WF_vars(ProcKilled)
  /\ WF_vars(SendOutcome)
  /\ WF_vars(\E res \in {TransportError} \cup Responses : RecvOutcome(res))
  /\ WF_vars(Release)
SpecLive == Init /\ [][Next]_vars /\ Fairness

(***************************************************************************)
(* sendWebhook called on its own, as the tests call it: any value of the   *)
(* type Webhook (an int) with any task.                                    *)
(***************************************************************************)
\* values of the type Webhook: the three constants, the ignored first value
\* of the iota, and values outside the enumeration
EventInputs == {-1, 0, startWebhook, successWebhook, failWebhook, 4}

InitCall ==
  /\ version = Current
  /\ RETRY = TRUE /\ SINGLE_SHOT = FALSE /\ DIE_IF_IDLE = FALSE
  /\ pc = "call"
  /\ running = FALSE /\ runningWrites = {FALSE}
  /\ ctxDone = FALSE /\ exited = FALSE
  /\ deliveries = 0 /\ released = 0 /\ lastVerdict = NoVerdict
  /\ exitBy = "none" /\ exitCode = NoExitCode /\ disconnects = 0
  /\ handledSinceCheck = FALSE
  /\ parentDone = FALSE /\ signalled = FALSE /\ listener = "select"
  /\ NoCmdline
  /\ task \in Tasks
  /\ startRes = NoResult /\ startErr = Unset
  /\ procRuns = 0 /\ procOutcome = "none" /\ procErr = Unset
  /\ outEvent = "none" /\ outRes = NoResult /\ outErr = Unset
  /\ posts = NoPosts /\ inflight = {} /\ trace = <<>>
  /\ verdict = NoVerdict
  /\ call \in [state : {"pending"}, event : EventInputs, err : {Unset}]

\* sendWebhook(call.event, task), up to http.Post
CallSendWebhook ==
  /\ pc = "call" /\ call.state = "pending"
  /\ LET rq == sendWebhookRequest(version, call.event, task)
     IN IF rq.post
        THEN /\ posts' = [posts EXCEPT ![rq.tag] = @ + 1]
             /\ inflight' = inflight \cup {rq.tag}
             /\ call' = [call EXCEPT !.state = "posted"]
        ELSE /\ call' = [call EXCEPT !.state = "returned", !.err = rq.err]
             /\ UNCHANGED <<posts, inflight>>
  /\ UNCHANGED <<config, pc, running, runningWrites, ctxDone, exited,
                 deliveries, released, lastVerdict, process,
                 handledSinceCheck, task, startRes, startErr, procRuns,
                 procOutcome, procErr, outEvent, outRes, outErr, trace,
                 verdict, sigctx, cmdline>>

\* http.Post returns res and sendWebhook returns
CallReturns(res) ==
  /\ pc = "call" /\ call.state = "posted"
  /\ \E tag \in inflight : res \in httpPost(TagLookup(task.Tags, tag))
  /\ outRes' = res
  /\ inflight' = {}
  /\ call' = [call EXCEPT !.state = "returned",
                          !.err = sendWebhookResult(version, res)]
  /\ UNCHANGED <<config, pc, running, runningWrites, ctxDone, exited,
                 deliveries, released, lastVerdict, process,
                 handledSinceCheck, task, startRes, startErr, procRuns,
                 procOutcome, procErr, outEvent, outErr, posts, trace,
                 verdict, sigctx, cmdline>>

NextCall ==
  \/ CallSendWebhook
  \/ \E res \in {TransportError} \cup Responses : CallReturns(res)

SpecCall == InitCall /\ [][NextCall]_vars

(***************************************************************************)
(* contextWithSigterm called with a parent that may be cancelled later,    *)
(* from the call on:                                                       *)
(* the goroutine it starts has not run yet.  The goroutine of main that    *)
(* waits for the derived context is its reader.                            *)
(***************************************************************************)
InitCtx ==
  /\ version = Current /\ call = NoCall
  /\ RETRY \in BOOLEAN /\ SINGLE_SHOT \in BOOLEAN /\ DIE_IF_IDLE \in BOOLEAN
  /\ pc = "ctx"
  /\ running = FALSE /\ runningWrites = {FALSE}
  /\ exited = FALSE
  /\ deliveries = 0 /\ released = 0 /\ lastVerdict = NoVerdict
  /\ exitBy = "none" /\ exitCode = NoExitCode /\ disconnects = 0
  /\ handledSinceCheck = FALSE
  /\ NoDelivery
  /\ parentDone = FALSE
  /\ ctxDone = FALSE
  /\ signalled = FALSE
  /\ listener = "spawned"
  /\ NoCmdline

\* the goroutine makes signalCh and calls signal.Notify
ListenerNotify ==
  /\ listener = "spawned" /\ ~exited
  /\ listener' = "select"
  /\ UNCHANGED <<config, pc, running, runningWrites, ctxDone, exited,
                 deliveries, released, lastVerdict, delivery, process,
                 handledSinceCheck, call, parentDone, signalled>>
  /\ UNCHANGED cmdline
  /\ UNCHANGED cmdline

\* a signal that arrives before signal.Notify has its default effect: the
\* process is terminated by it
SignalKills ==
  /\ listener = "spawned" /\ ~exited
  /\ exited' = TRUE
  /\ exitBy' = "signal"
  /\ UNCHANGED <<config, pc, running, runningWrites, ctxDone, deliveries,
                 released, lastVerdict, delivery, exitCode, disconnects,
                 handledSinceCheck, call, sigctx, cmdline>>

\* a signal that arrives after signal.Notify is put into signalCh (which
\* holds one signal; Notify is never undone, also after the goroutine
\* returned)
SignalArrives ==
  /\ listener \in {"select", "done"} /\ ~exited /\ ~signalled
  /\ signalled' = TRUE
  /\ UNCHANGED <<config, pc, running, runningWrites, ctxDone, exited,
                 deliveries, released, lastVerdict, delivery, process,
                 handledSinceCheck, call, parentDone, listener>>
  /\ UNCHANGED cmdline

\* the parent context is cancelled; a context made by context.WithCancel is
\* cancelled by the cancellation of its parent
ParentCancel ==
  /\ ~parentDone /\ ~exited
  /\ parentDone' = TRUE
  /\ ctxDone' = TRUE
  /\ UNCHANGED <<config, pc, running, runningWrites, exited, deliveries,
                 released, lastVerdict, delivery, process, handledSinceCheck,
                 call, signalled, listener>>
  /\ UNCHANGED cmdline

\* a goroutine whose select does not wait
ListenerReturns_NoWait ==
  /\ listener = "select" /\ ~exited
  /\ listener' = "done"
  /\ ctxDone' = TRUE
  /\ UNCHANGED <<config, pc, running, runningWrites, exited, deliveries,
                 released, lastVerdict, delivery, process, handledSinceCheck,
                 call, parentDone, signalled>>
  /\ UNCHANGED cmdline

\* the select of the goroutine receives from signalCh or from ctx.Done() of
\* the parent; the goroutine returns and its deferred cancel() runs
ListenerReturns ==
  /\ listener = "select" /\ ~exited
  /\ signalled \/ parentDone
  /\ listener' = "done"
  /\ ctxDone' = TRUE
  /\ UNCHANGED <<config, pc, running, runningWrites, exited, deliveries,
                 released, lastVerdict, delivery, process, handledSinceCheck,
                 call, parentDone, signalled>>
  /\ UNCHANGED cmdline

NextCtx ==
  \/ ListenerNotify
  \/ SignalKills
  \/ SignalArrives
  \/ ParentCancel
  \/ ListenerReturns
  \/ Disconnect

\* goroutines that can run do run
FairnessCtx ==
  /\ WF_vars(ListenerNotify)
  /\ WF_vars(ListenerReturns)
  /\ WF_vars(Disconnect)

SpecCtx == InitCtx /\ [][NextCtx]_vars /\ FairnessCtx

(***************************************************************************)
(* runProc called on its own, as the tests call it, with a command line    *)
(* made of tokens and of the whitespace between them.                      *)
(***************************************************************************)
\* tokens: non-empty, without whitespace
Words == {<<"a">>, <<"b", "c">>}
\* runs of whitespace
Runs == UNION { [1..n -> {Sp, Tab}] : n \in 1..MaxRun }

RECURSIVE CommandLine(_, _)
\* the command line: the tokens with the runs of whitespace between them
CommandLine(toks, runs) ==
  IF toks = <<>> THEN <<>>
  ELSE IF Len(toks) = 1 THEN toks[1]
  ELSE toks[1] \o runs[1] \o CommandLine(Tail(toks), Tail(runs))

InitSplit ==
  /\ version = Current /\ call = NoCall
  /\ RETRY = TRUE /\ SINGLE_SHOT = FALSE /\ DIE_IF_IDLE = FALSE
  /\ pc = "split"
  /\ running = FALSE /\ runningWrites = {FALSE}
  /\ ctxDone = FALSE /\ exited = FALSE
  /\ deliveries = 0 /\ released = 0 /\ lastVerdict = NoVerdict
  /\ exitBy = "none" /\ exitCode = NoExitCode /\ disconnects = 0
  /\ handledSinceCheck = FALSE
  /\ parentDone = FALSE /\ signalled = FALSE /\ listener = "select"
  /\ NoDelivery
  /\ tokens \in UNION { [1..n -> Words] : n \in 0..MaxTokens }
  /\ seps \in [1..(IF tokens = <<>> THEN 0 ELSE Len(tokens) - 1) -> Runs]
  /\ parsed = NoParse

\* runProc calls getCommandAndArgs(cli)
CallGetCommandAndArgs ==
  /\ pc = "split" /\ parsed.state = "none"
  /\ LET r == getCommandAndArgs(version, CommandLine(tokens, seps))
     IN parsed' = [state |-> "split", command |-> r.command, args |-> r.args,
                   err |-> Unset]
  /\ UNCHANGED <<config, pc, running, runningWrites, ctxDone, exited,
                 deliveries, released, lastVerdict, delivery, process,
                 handledSinceCheck, call, sigctx, tokens, seps>>

\* runProc runs the command: cmd.Run() up to the start of the child
CallRun(spawns) ==
  /\ pc = "split" /\ parsed.state = "split"
  /\ parsed' = [parsed EXCEPT
                  !.state = "run",
                  !.err = runProcStart(version, CommandLine(tokens, seps),
                                       ctxDone, spawns)]
  /\ UNCHANGED <<config, pc, running, runningWrites, ctxDone, exited,
                 deliveries, released, lastVerdict, delivery, process,
                 handledSinceCheck, call, sigctx, tokens, seps>>

NextSplit ==
  \/ CallGetCommandAndArgs
  \/ \E spawns \in BOOLEAN : CallRun(spawns)

SpecSplit == InitSplit /\ [][NextSplit]_vars

(***************************************************************************)
(* Properties of one delivery.                                             *)
(***************************************************************************)
Configured(tag) == TagLookup(task.Tags, tag) # ""
Failed(err) == err # Nil /\ err # Unset
Verdict(requeue, err) == [requeue |-> requeue, err |-> err]
Expected(tag) == IF Configured(tag) THEN 1 ELSE 0

\* C1: when the start webhook answers 400 the handler returns
\* (requeue = false, ErrWebhookBadRequest), runProc is not called for the
\* delivery and neither the success nor the fail notification is sent.
C1_BadRequestAborts ==
  startRes = Response(400) =>
    /\ Configured("webhook_start")
    /\ pc = "returned"
    /\ verdict = Verdict(FALSE, ErrWebhookBadRequest)
    /\ procRuns = 0 /\ procOutcome = "none"
    /\ outEvent = "none"
    /\ \A k \in TagKeys \ {"webhook_start"} : posts[k] = 0

C1_Witness ==
  /\ pc = "returned" /\ startRes = Response(400)
  /\ Configured("webhook_success") /\ Configured("webhook_fail")
  /\ task.Body # <<>>

\* C2: when the start webhook answers with a status that is neither 400 nor
\* in [200,300) the handler returns (requeue = true, ErrWebhookServerFailed)
\* and runProc is not called for the delivery.
C2_OtherStatusRequeues ==
  ( /\ startRes.kind = "response"
    /\ startRes.code # 400
    /\ ~(startRes.code >= 200 /\ startRes.code < 300) ) =>
    /\ pc = "returned"
    /\ verdict = Verdict(TRUE, ErrWebhookServerFailed)
    /\ procRuns = 0 /\ procOutcome = "none"

C2_Witness ==
  /\ pc = "returned" /\ startRes = Response(300)
  /\ verdict.requeue /\ procRuns = 0

\* C3: in every snapshot of the handler, when http.Post of the start
\* notification fails at transport level the failure is classified
\* ErrWebhookServerFailed, the verdict is requeue = true and runProc is not
\* called.
C3_TransportFailureRequeues ==
  startRes = TransportError =>
    /\ startErr = ErrWebhookServerFailed
    /\ pc = "returned"
    /\ verdict.requeue
    /\ procRuns = 0

\* C4: when the command fails (it does not start, exits non-zero or is
\* killed on cancellation) the fail notification is attempted once if
\* webhook_fail is configured and not at all otherwise, the success
\* notification is not sent, and the verdict is (config.RETRY, the error of
\* runProc).
C4_FailureNotifiesAndRetries ==
  (pc = "returned" /\ procOutcome \in {"notStarted", "exitNonZero", "killed"}) =>
    /\ startErr = Nil
    /\ procRuns = 1
    /\ outEvent = "fail"
    /\ posts["webhook_fail"] = Expected("webhook_fail")
    /\ posts["webhook_success"] = 0
    /\ Failed(procErr)
    /\ verdict = Verdict(RETRY, procErr)

C4_Witness ==
  /\ pc = "returned" /\ procOutcome = "exitNonZero"
  /\ posts["webhook_fail"] = 1 /\ RETRY
  /\ outErr = ErrWebhookServerFailed

\* C5: when the command exits with status 0 the success notification is
\* attempted once if webhook_success is configured and not at all otherwise,
\* the fail notification is not sent, and the verdict is (false, nil).
C5_SuccessNotifiesAndAcks ==
  (pc = "returned" /\ procOutcome = "exit0") =>
    /\ startErr = Nil
    /\ procRuns = 1
    /\ outEvent = "success"
    /\ posts["webhook_success"] = Expected("webhook_success")
    /\ posts["webhook_fail"] = 0
    /\ verdict = Verdict(FALSE, Nil)

C5_Witness ==
  /\ pc = "returned" /\ procOutcome = "exit0"
  /\ posts["webhook_success"] = 1 /\ posts["webhook_start"] = 1
  /\ Configured("webhook_fail")

\* the verdict as a function of the error of the start notification, the
\* error of runProc and the retry policy
VerdictOf(sErr, pErr, retry) ==
  IF sErr = ErrWebhookServerFailed THEN Verdict(TRUE, sErr)
  ELSE IF sErr # Nil THEN Verdict(FALSE, sErr)
  ELSE IF pErr # Nil THEN Verdict(retry, pErr)
  ELSE Verdict(FALSE, Nil)

\* C6: the verdict is determined by the outcome of the start notification,
\* the outcome of the command and the retry policy: whatever the outcome of
\* the success or fail notification, the handler returns VerdictOf of the
\* three.
C6_VerdictIgnoresOutcomeNotification ==
  pc = "returned" =>
    /\ Failed(startErr) => procErr = Unset /\ outErr = Unset
    /\ verdict = VerdictOf(startErr, IF procErr = Unset THEN Nil ELSE procErr,
                           RETRY)

C6_Witness ==
  /\ pc = "returned" /\ procOutcome = "exit0"
  /\ outErr = ErrWebhookServerFailed /\ RETRY

\* C7: requeue = true only if the start notification was classified
\* ErrWebhookServerFailed, or the command failed and the retry policy is
\* true; never after a command that succeeded, never after a 400.
C7_RequeueOnlyForTwoReasons ==
  pc = "returned" =>
    /\ verdict.requeue =>
         \/ startErr = ErrWebhookServerFailed
         \/ (Failed(procErr) /\ RETRY)
    /\ procOutcome = "exit0" => ~verdict.requeue
    /\ startRes = Response(400) => ~verdict.requeue

C7_Witness ==
  /\ pc = "returned" /\ procOutcome = "exit0" /\ RETRY
  /\ outErr = ErrWebhookBadRequest /\ ~verdict.requeue

\* the part of the handler an event of the trace belongs to
Phase(e) ==
  IF e \in {"start.post", "start.done", "start.skip"} THEN 1
  ELSE IF e \in {"proc.start", "proc.done"} THEN 2
  ELSE 3
PostEvents == {"start.post", "success.post", "fail.post"}
OutcomeBegins == {"success.post", "success.skip", "fail.post", "fail.skip"}
DoneOf(e) ==
  CASE e = "start.post" -> "start.done"
    [] e = "success.post" -> "success.done"
    [] e = "fail.post" -> "fail.done"
At(e) == { i \in 1..Len(trace) : trace[i] = e }

\* C8: in one delivery the start notification completes before the command
\* starts, the command ends before the outcome notification begins, at most
\* one outcome notification is issued (never both success and fail), and at
\* most one notification is in flight at any time.
C8_EventsTotallyOrdered ==
  /\ \A i, j \in 1..Len(trace) : i < j => Phase(trace[i]) <= Phase(trace[j])
  /\ \A i \in 1..Len(trace) :
       (trace[i] \in PostEvents /\ i < Len(trace)) => trace[i + 1] = DoneOf(trace[i])
  /\ \A e \in {"start.post", "start.skip", "start.done", "proc.start",
               "proc.done"} \cup OutcomeBegins : Cardinality(At(e)) <= 1
  /\ Cardinality({ i \in 1..Len(trace) : trace[i] \in OutcomeBegins }) <= 1
  /\ At("proc.start") # {} => At("start.done") \cup At("start.skip") # {}
  /\ \A e \in OutcomeBegins : At(e) # {} => At("proc.done") # {}
  /\ Cardinality(inflight) <= 1
  /\ inflight # {} <=> (trace # <<>> /\ trace[Len(trace)] \in PostEvents)
  /\ pc = "waitProc" => inflight = {}
  /\ ~(posts["webhook_success"] > 0 /\ posts["webhook_fail"] > 0)

C8_Witness ==
  trace = <<"start.post", "start.done", "proc.start", "proc.done",
            "fail.post", "fail.done">>

\* C9: when the tag of an event is absent or empty, sendWebhook returns nil
\* and issues no HTTP request; after a skipped start notification the
\* handler goes on to run the command as it does after an acknowledged one.
C9_MissingTagSkips ==
  /\ (startErr # Unset /\ ~Configured("webhook_start")) =>
        /\ startErr = Nil /\ startRes = NoResult
        /\ posts["webhook_start"] = 0
        /\ At("start.skip") # {}
  /\ (outEvent # "none" /\ ~Configured("webhook_" \o outEvent)) =>
        /\ outErr = Nil /\ outRes = NoResult
        /\ posts["webhook_" \o outEvent] = 0
        /\ pc = "returned"
  /\ startErr = Nil => (pc = "runProc" /\ procRuns = 0) \/ procRuns = 1
  /\ \A k \in TagKeys : ~Configured(k) => posts[k] = 0

C9_Witness ==
  /\ pc = "returned"
  /\ "webhook_start" \in DOMAIN task.Tags /\ task.Tags["webhook_start"] = ""
  /\ "webhook_success" \notin DOMAIN task.Tags
  /\ outEvent = "success" /\ procRuns = 1
  /\ Configured("webhook_fail")

\* the classification of section 4.2
Classify(res) ==
  IF res.kind = "response" /\ res.code = 400 THEN ErrWebhookBadRequest
  ELSE IF res.kind = "response" /\ res.code \in 200..299 THEN Nil
  ELSE ErrWebhookServerFailed

\* C10: for a configured webhook sendWebhook returns ErrWebhookBadRequest
\* on status 400, nil on a status in [200,300) and ErrWebhookServerFailed
\* on every other status and on every transport failure, whichever of the
\* three events is sent.
C10_ClassificationSameForAllEvents ==
  /\ startRes # NoResult => startErr = Classify(startRes)
  /\ outRes # NoResult => outErr = Classify(outRes)
  /\ (startErr # Unset /\ TagLookup(task.Tags, "webhook_start") = MalformedUrl)
       => startErr = ErrWebhookServerFailed
  /\ (outErr # Unset /\ outEvent # "none"
        /\ TagLookup(task.Tags, "webhook_" \o outEvent) = MalformedUrl)
       => outErr = ErrWebhookServerFailed
  /\ (startErr # Unset /\ Configured("webhook_start")) => startRes # NoResult
  /\ (outErr # Unset /\ Configured("webhook_" \o outEvent)) => outRes # NoResult

C10_Witness ==
  /\ pc = "returned"
  /\ startRes = Response(299)
  /\ outEvent = "fail" /\ outRes = TransportError
  /\ outErr = ErrWebhookServerFailed

(***************************************************************************)
(* Properties of sendWebhook, of the delivery loop and of the process.     *)
(***************************************************************************)
KnownEvents == {startWebhook, successWebhook, failWebhook}

\* C11: for an event outside {start, success, fail} sendWebhook returns
\* ErrUnknownWebhook whatever the tags of the task and issues no HTTP
\* request; the unknown event is not treated as skipped.
C11_UnknownEventIsAnError ==
  (call.state \in {"posted", "returned"} /\ call.event \notin KnownEvents) =>
    /\ call.state = "returned"
    /\ call.err = ErrUnknownWebhook
    /\ posts = NoPosts /\ inflight = {} /\ outRes = NoResult

C11_Witness ==
  /\ call.state = "returned" /\ call.event = -1
  /\ \A k \in WebhookKeys : Configured(k)
  /\ call.err = ErrUnknownWebhook

\* C12: as the README documents the tags, when the command fails and the
\* task carries a non-empty tag webhook_error, a POST is sent to the URL in
\* webhook_error before the verdict is returned.
C12_ReadmeErrorWebhookPosted ==
  (pc = "returned" /\ Failed(procErr) /\ Configured("webhook_error")) =>
    posts["webhook_error"] = 1

\* C13: the consumption mode is fixed when subscribe starts.  In single shot
\* mode the handler is invoked for one delivery in the life of the process
\* and consumption stops after it, whatever its verdict; in continuous mode
\* the next delivery can be made after each verdict until the context is
\* cancelled.
C13_ConsumptionModeFixed ==
  /\ SINGLE_SHOT =>
       /\ deliveries <= 1
       /\ released = 1 => pc = "stopped"
       /\ pc = "idle" => deliveries = 0
  /\ pc = "stopped" => SINGLE_SHOT /\ deliveries = 1 /\ released = 1
  /\ ~SINGLE_SHOT =>
       /\ pc = "idle" => released = deliveries
       /\ (pc = "idle" /\ ~ctxDone /\ ~exited /\ deliveries < MaxDeliveries)
            => ENABLED (\E t \in Tasks : Deliver(t))
  /\ (ctxDone \/ pc = "stopped") => ~ENABLED (\E t \in Tasks : Deliver(t))

C13_Witness ==
  /\ SINGLE_SHOT /\ pc = "stopped" /\ lastVerdict.requeue
  /\ deliveries = 1 /\ ~exited /\ ~ctxDone

\* C14: at a check the watchdog ends the process only if no delivery was
\* handled since its previous check; a delivery handled in that window, even
\* one that has finished before the check, keeps the process running.
\* (Stated for the checks made while no handler runs, where the value read
\* from running is the one in memory.)
C14_ExitOnlyAfterIdleWindow ==
  (exitBy = "watchdog" /\ ~running) => ~handledSinceCheck

\* C15 (as stated): the exit code tells the two ways of ending apart: the
\* watchdog ends the process with a non-zero code, and code 0 comes only from
\* main returning after subscribe returned without error.
C15_ExitCodeDistinguishes ==
  exited =>
    /\ exitBy = "watchdog" => exitCode # 0
    /\ exitCode = 0 => exitBy = "main"

\* C15 (amended): the watchdog ends the process with os.Exit(0), so code 0 is
\* produced both by the watchdog and by main returning; the only non-zero code
\* is 1, produced by log.Fatal when subscribe returns an error.
C15_WatchdogExitsZero ==
  /\ exited <=> exitBy # "none"
  /\ exited <=> exitCode # NoExitCode
  /\ exited =>
       /\ exitBy \in {"watchdog", "main", "fatal"}
       /\ exitBy = "watchdog" => exitCode = 0
       /\ exitCode = 0 <=> exitBy \in {"watchdog", "main"}
       /\ exitCode = 1 <=> exitBy = "fatal"

C15_Witness ==
  /\ exited /\ exitBy = "watchdog" /\ exitCode = 0
  /\ deliveries = 0 /\ ~ctxDone

\* C16: queue.Disconnect is called exactly once on every end of the process
\* other than the watchdog's exit (after a signal, after subscribe returns in
\* single-shot mode, when subscribe returns an error); it is never called
\* twice and never before the context is cancelled.
C16_DisconnectExactlyOnce ==
  /\ disconnects <= 1
  /\ disconnects = 1 => ctxDone
  /\ (exited /\ exitBy # "watchdog") => disconnects = 1

\* a command is executing in a live process and the context is cancelled
CancelledWhileExecuting == pc = "waitProc" /\ ctxDone /\ ~exited

\* C17: if the context is cancelled while a command is executing, the child
\* is terminated, runProc returns an error, the handler eventually returns a
\* verdict for that delivery and the delivery loop is unblocked (the queue has
\* taken the verdict of every delivery made).
C17_CancelUnblocksHandler ==
  /\ [](procOutcome = "killed" => Failed(procErr))
  /\ CancelledWhileExecuting ~> (released = deliveries)

\* the same, for the behaviours in which the process is not ended meanwhile
CancelUnblocksUnlessExited ==
  /\ [](procOutcome = "killed" => Failed(procErr))
  /\ CancelledWhileExecuting ~> (exited \/ released = deliveries)

\* number of verdicts the handler has returned so far: those the queue has
\* taken and the one it is about to take
VerdictsReturned == released + (IF pc = "returned" THEN 1 ELSE 0)

\* C18: every delivery gets exactly one verdict from the handler, whatever the
\* watchdog and the cancellation do: never two (no more verdicts than
\* deliveries, at most one delivery open), never zero (when the process ends,
\* every delivery made has its verdict), and the task handled is one of the
\* tasks delivered, unchanged.
C18_OneVerdictPerDelivery ==
  /\ VerdictsReturned <= deliveries
  /\ deliveries - released \in {0, 1}
  /\ exited => VerdictsReturned = deliveries
  /\ task # NoTask => task \in Tasks

\* C19: the accesses to running are race-free: whenever the watchdog can make
\* its read, the only value the read can yield is the value last written by
\* the handler.
C19_RunningRaceFree ==
  (DIE_IF_IDLE /\ HasWatchdog(version) /\ ~exited) => runningWrites = {running}

\* C20: the watchdog never ends the process between the handler marking the
\* orchestrator busy and marking it idle again.
C20_NoExitWhileHandling ==
  exitBy = "watchdog" => ~running

\* the handler is between its first statement and its return
Handling ==
  pc \in {"signalTaskStart", "postStart", "runProc", "waitProc", "notify",
          "postOutcome"}

\* C21: running is true from the first step of the handler through the start
\* notification, the command and the outcome notification, and false again
\* after every return of the handler (abort on 400, abort on a failed start
\* notification, failed command, success); it is false whenever no delivery
\* is being handled.
C21_BusyFlagFollowsHandler ==
  /\ Handling => running
  /\ pc \in {"idle", "returned", "stopped"} => ~running
  /\ running \in runningWrites
  /\ deliveries = 0 => runningWrites = {FALSE}

C21_Witness ==
  /\ pc = "returned" /\ ~running /\ TRUE \in runningWrites
  /\ Failed(procErr) /\ verdict = Verdict(RETRY, procErr)

\* C22: the context returned by contextWithSigterm is cancelled exactly when
\* a signal has arrived or the parent is cancelled: never before one of the
\* two, eventually after either, and once cancelled it stays cancelled (the
\* cancellation happens once).
C22_CancelledIffSignalOrParent ==
  /\ [](ctxDone => (signalled \/ parentDone))
  /\ [](listener = "done" => ctxDone)
  /\ [][ctxDone => ctxDone']_vars
  /\ (signalled \/ parentDone) ~> ctxDone

C22_Witness ==
  /\ ctxDone /\ signalled /\ ~parentDone /\ listener = "done"
  /\ disconnects = 1

\* C23: for a command line of non-empty tokens separated by runs of
\* whitespace, getCommandAndArgs gives the first token as the command and the
\* other tokens, in order, as the arguments, none of them empty; for the empty
\* command line the command is empty and runProc returns an error.
C23_SplitsOnWhitespaceRuns ==
  parsed.state \in {"split", "run"} =>
    /\ tokens # <<>> =>
         /\ parsed.command = tokens[1]
         /\ parsed.args = Tail(tokens)
         /\ \A i \in 1..Len(parsed.args) : parsed.args[i] # <<>>
    /\ tokens = <<>> =>
         /\ parsed.command = <<>> /\ parsed.args = <<>>
         /\ parsed.state = "run" => Failed(parsed.err)

C23_Witness ==
  /\ parsed.state = "split"
  /\ tokens = << <<"a">>, <<"b", "c">> >> /\ seps = << <<Sp, Sp>> >>
  /\ parsed.command = <<"a">> /\ parsed.args = << <<"b", "c">> >>

C23_WitnessEmpty ==
  parsed.state = "run" /\ tokens = <<>> /\ parsed.err = ErrExec

\* C24: a delivery whose command was killed by the cancellation of the
\* context ends like one whose command failed by itself: the error of runProc
\* is the one of a non-zero exit, the fail notification is attempted (and the
\* success one is not), and the verdict is (requeue = RETRY, that error); with
\* RETRY false the task is acknowledged.
C24_KilledIsHandledAsFailed ==
  (pc = "returned" /\ procOutcome = "killed") =>
    /\ ctxDone
    /\ procErr = runProcWait(1)
    /\ outEvent = outcomeEvent(runProcWait(1))
    /\ posts["webhook_fail"] = Expected("webhook_fail")
    /\ posts["webhook_success"] = 0
    /\ verdict = procVerdict(RETRY, runProcWait(1), outErr)
    /\ verdict.requeue = RETRY

C24_Witness ==
  /\ pc = "returned" /\ procOutcome = "killed"
  /\ ~RETRY /\ ~verdict.requeue /\ Failed(verdict.err)
  /\ posts["webhook_fail"] = 1

\* the start notification of the task being handled can only fail
InvalidStartUrl ==
  task # NoTask /\ TagLookup(task.Tags, "webhook_start") = MalformedUrl

\* C25: the handler keeps no count of attempts: on every delivery, the first
\* or a later one, a start notification classified as a server failure ends
\* the delivery with requeue = true and without the command being run, and
\* that is the verdict the queue receives; a task whose webhook_start URL is
\* permanently invalid gets this on every delivery, so it is never
\* acknowledged, and under queue.Subscribe the loop goes on to the next
\* delivery.
C25_RequeuedOnEveryDelivery ==
  /\ [](InvalidStartUrl =>
          /\ procRuns = 0 /\ procOutcome = "none"
          /\ pc = "returned" => verdict = Verdict(TRUE, ErrWebhookServerFailed))
  /\ [](startErr = ErrWebhookServerFailed =>
          /\ pc = "returned" /\ verdict.requeue
          /\ procRuns = 0 /\ procOutcome = "none")
  /\ [][(startErr = ErrWebhookServerFailed /\ released' = released + 1) =>
          /\ lastVerdict' = Verdict(TRUE, ErrWebhookServerFailed)
          /\ ~SINGLE_SHOT => pc' = "idle"]_vars

C25_Witness ==
  /\ ~SINGLE_SHOT /\ deliveries = MaxDeliveries /\ released = deliveries - 1
  /\ lastVerdict = Verdict(TRUE, ErrWebhookServerFailed)
  /\ InvalidStartUrl /\ pc = "returned" /\ verdict.requeue

====
